---------------------------- MODULE Spec2Model ----------------------------
(***************************************************************************)
(* Model of scheduler_logic.py: the slot availability builder, the rule    *)
(* evaluators, the backtracking solvers and the diversification pass.      *)
(*                                                                         *)
(* Conventions                                                             *)
(*  - An employee is identified by its index in employee_data_list; the    *)
(*    display names are taken to be pairwise distinct and to sort in list  *)
(*    order.                                                               *)
(*  - A time is a number of half hours after an hour boundary of the       *)
(*    reference day: time t is on the hour iff t is even.  Every time of   *)
(*    the input lies on this grid.                                         *)
(*  - A missing or unparseable time (pd.NaT) is the empty set, a present   *)
(*    time t is {t}.                                                       *)
(*  - A dict is a function; dict.get(k, default) is Get... below.          *)
(*  - Sequences are 1-based: slot index i of the model is time_idx i-1.    *)
(***************************************************************************)
EXTENDS Integers, Sequences, FiniteSets, TLC

\* Number of employees of the roster.
NEmp == 3
\* Number of half-hour times of the day that a shift may cover.
MaxT == 3

Emps == 1 .. NEmp
Times == 0 .. (MaxT - 1)

\* ======================================================================
\* SECTION 1: shared configuration and helpers
\* ======================================================================

FINAL_SCHEDULE_ROW_ORDER ==
    << "Handout", "Line Buster 1", "Conductor", "Line Buster 2", "Expo",
       "Drink Maker 1", "Drink Maker 2", "Line Buster 3", "Break", "ToffTL" >>

WORK_POSITIONS ==
    SelectSeq(FINAL_SCHEDULE_ROW_ORDER, LAMBDA p : p \notin {"Break", "ToffTL"})

LINE_BUSTER_ROLES == {"Line Buster 1", "Line Buster 2", "Line Buster 3"}

TOP_TIER_ROLES == {"Handout", "Line Buster 1", "Conductor"}

\* Python's None as a position.
NoPos == "None"

\* The training block in half hours: pd.Timedelta(minutes=60).
ToffTLLength == 2

\* A break as long as a training block.
BreakAsLongAsToffTL == ToffTLLength

\* The break in half hours: pd.Timedelta(minutes=30).
BreakLength == 1

\* slot_obj.minute of the slot that starts at time t.
Minute(t) == (t % 2) * 30

\* The elements of a set of integers in increasing order (sorted()).
RECURSIVE SortedSeq(_)
SortedSeq(S) ==
    IF S = {} THEN << >>
    ELSE LET m == CHOOSE x \in S : \A y \in S : x <= y
         IN  << m >> \o SortedSeq(S \ {m})

Range(s) == {s[i] : i \in 1 .. Len(s)}

\* itertools.permutations(s): every ordering of s, in lexicographic order of
\* the indices.
RECURSIVE permutations(_)
RECURSIVE PermsFrom(_, _)
PermsFrom(s, i) ==
    IF i > Len(s) THEN << >>
    ELSE LET rest == SubSeq(s, 1, i - 1) \o SubSeq(s, i + 1, Len(s))
             tails == permutations(rest)
         IN  [j \in 1 .. Len(tails) |-> << s[i] >> \o tails[j]] \o PermsFrom(s, i + 1)
permutations(s) == IF s = << >> THEN << << >> >> ELSE PermsFrom(s, 1)

\* One employee's input record: the shift, the break start, the training start.
EmployeeData(shift, brk, toff) ==
    [ShiftStart |-> IF shift = << >> THEN {} ELSE {shift[1]},
     ShiftEnd   |-> IF shift = << >> THEN {} ELSE {shift[2]},
     Break      |-> brk,
     ToffTLStart |-> toff]

\* The rows of df_long: one per employee and half hour of the shift.
preprocess_employee_data(employee_data_list) ==
    UNION { LET d == employee_data_list[e] IN
            IF d.ShiftStart = {} \/ d.ShiftEnd = {} THEN {}
            ELSE LET s_start == CHOOSE t \in d.ShiftStart : TRUE
                     s_end   == CHOOSE t \in d.ShiftEnd : TRUE
                 IN  { [Time |-> curr,
                        EmployeeNameFML |-> e,
                        IsOnBreak  |-> \E b \in d.Break :
                                          b <= curr /\ curr < b + BreakLength,
                        IsOnToffTL |-> \E t \in d.ToffTLStart :
                                          t <= curr /\ curr < t + ToffTLLength]
                       : curr \in {c \in s_start .. (s_end - 1) : c >= s_start} }
          : e \in DOMAIN employee_data_list }

\* sorted(df_long['Time'].unique()).
TimeSlots(df_long) == SortedSeq({r.Time : r \in df_long})

\* The availability dict: for every time with an employee who is neither on
\* break nor in training, those employees in list order.
Availability(df_long) ==
    LET free == {r \in df_long : ~r.IsOnBreak /\ ~r.IsOnToffTL}
    IN  [t \in {r.Time : r \in free} |->
            SortedSeq({r.EmployeeNameFML : r \in {x \in free : x.Time = t}})]

\* availability.get(slot_str, []).
AvailGet(availability, slot) ==
    IF slot \in DOMAIN availability THEN availability[slot] ELSE << >>

\* The Break and ToffTL cells of a slot.
BreakCell(df_long, slot) ==
    {r.EmployeeNameFML : r \in {x \in df_long : x.Time = slot /\ x.IsOnBreak}}
ToffTLCell(df_long, slot) ==
    {r.EmployeeNameFML : r \in {x \in df_long : x.Time = slot /\ x.IsOnToffTL}}

\* The same dict over the last len(p) positions of WORK_POSITIONS instead of
\* the first.
AssignmentsToLastPositions(p) ==
    LET shift == Len(WORK_POSITIONS) - Len(p)
    IN  [pos \in {WORK_POSITIONS[i + shift] : i \in 1 .. Len(p)} |->
            p[CHOOSE i \in 1 .. Len(p) : WORK_POSITIONS[i + shift] = pos]]

\* {pos: emp for pos, emp in zip(positions_to_fill, p)}.
Assignments(p) ==
    [pos \in {WORK_POSITIONS[i] : i \in 1 .. Len(p)} |->
        p[CHOOSE i \in 1 .. Len(p) : WORK_POSITIONS[i] = pos]]

\* The output of an entry point: kind is "nodata" (no employee data),
\* "fail" (the could-not-find message), "raised" (an exception leaves the
\* function) or "ok" (a table: note, the work rows, the Break and ToffTL rows).
\* total_cost is the cost the top-level solver call returned (phoenix only)
\* and solver_tiers records, per top-level solver call of the run, the
\* relaxation tier of the rule set that solver enforces.
Output(kind, note, time_slots, rows, df_long) ==
    [kind |-> kind, note |-> note, time_slots |-> time_slots, rows |-> rows,
     Break  |-> [i \in 1 .. Len(time_slots) |-> BreakCell(df_long, time_slots[i])],
     ToffTL |-> [i \in 1 .. Len(time_slots) |-> ToffTLCell(df_long, time_slots[i])],
     total_cost |-> << >>, solver_tiers |-> << >>]

NoTable(kind) == Output(kind, "", << >>, << >>, {})

\* ======================================================================
\* SECTION 2: heuristic (conductor first) scheduler
\* ======================================================================

\* The same dict built without the training flag: an employee in training
\* stays available.
HeuristicAvailabilityIgnoringToffTL(df_long) ==
    LET free == {r \in df_long : ~r.IsOnBreak}
    IN  [t \in {r.Time : r \in free} |->
            {r.EmployeeNameFML : r \in {x \in free : x.Time = t}}]

\* The availability dict of the heuristic: sets, not lists.
HeuristicAvailability(df_long) ==
    LET free == {r \in df_long : ~r.IsOnBreak /\ ~r.IsOnToffTL}
    IN  [t \in {r.Time : r \in free} |->
            {r.EmployeeNameFML : r \in {x \in free : x.Time = t}}]

\* availability.get(slot_str, set()).
AvailSetGet(availability, slot) ==
    IF slot \in DOMAIN availability THEN availability[slot] ELSE {}

\* d with d[k] = v (k may be new).
DictSet(d, k, v) == [x \in (DOMAIN d) \cup {k} |-> IF x = k THEN v ELSE d[x]]

\* The Conductor pre-pass, from slot index i on: at every on-the-hour slot that
\* has a next slot, the candidate idle longest (the first in sorted order among
\* equals) is Conductor of both slots.
RECURSIVE ConductorPrePass(_, _, _, _, _)
ConductorPrePass(i, time_slots, availability, schedule, employee_last_worked) ==
    IF i > Len(time_slots) THEN [availability |-> availability, schedule |-> schedule]
    ELSE IF Minute(time_slots[i]) # 0 \/ i >= Len(time_slots)
    THEN ConductorPrePass(i + 1, time_slots, availability, schedule,
                          employee_last_worked)
    ELSE LET slot_str == time_slots[i]
             next_slot_str == time_slots[i + 1]
             possible_candidates == AvailSetGet(availability, slot_str)
                                      \cap AvailSetGet(availability, next_slot_str)
             idle_time(emp) == (i - 1) - employee_last_worked[emp]
             best_candidate ==
                 CHOOSE emp \in possible_candidates :
                     \A o \in possible_candidates :
                         \/ idle_time(emp) > idle_time(o)
                         \/ (idle_time(emp) = idle_time(o) /\ emp <= o)
         IN  IF possible_candidates = {}
             THEN ConductorPrePass(i + 1, time_slots, availability, schedule,
                                   employee_last_worked)
             ELSE ConductorPrePass(
                      i + 1, time_slots,
                      [t \in DOMAIN availability |->
                          IF t \in {slot_str, next_slot_str}
                          THEN availability[t] \ {best_candidate}
                          ELSE availability[t]],
                      [schedule EXCEPT
                          ![i] = DictSet(@, "Conductor", best_candidate),
                          ![i + 1] = DictSet(schedule[i + 1], "Conductor",
                                             best_candidate)],
                      [employee_last_worked EXCEPT ![best_candidate] = i])

\* employee_states.get(emp, {}) read with .get('last_pos') and .get('time_in_pos', 0).
HeuristicGet(employee_states, emp) ==
    IF emp \in DOMAIN employee_states THEN employee_states[emp]
    ELSE [last_pos |-> NoPos, time_in_pos |-> 0]

\* The fill of one slot, from position index j on.  The result is the slot's
\* assignments, the employees still available and employee_states.
RECURSIVE FillSlot(_, _, _, _)
FillSlot(j, assignments, avail, employee_states) ==
    IF j > Len(WORK_POSITIONS)
    THEN [assignments |-> assignments, employee_states |-> employee_states]
    ELSE LET pos == WORK_POSITIONS[j]
             blocked(emp) ==
                 LET st == HeuristicGet(employee_states, emp) IN
                 \/ (pos \in LINE_BUSTER_ROLES /\ st.last_pos \in LINE_BUSTER_ROLES)
                 \/ (pos \notin LINE_BUSTER_ROLES /\ st.last_pos = pos
                       /\ st.time_in_pos >= 2)
             candidates == {emp \in avail : ~blocked(emp)}
             best_candidate == CHOOSE emp \in candidates :
                                   \A o \in candidates : emp <= o
             state == HeuristicGet(employee_states, best_candidate)
         IN  IF pos \in DOMAIN assignments \/ candidates = {}
             THEN FillSlot(j + 1, assignments, avail, employee_states)
             ELSE FillSlot(
                      j + 1, DictSet(assignments, pos, best_candidate),
                      avail \ {best_candidate},
                      DictSet(employee_states, best_candidate,
                              [last_pos |-> pos,
                               time_in_pos |-> IF state.last_pos = pos
                                               THEN state.time_in_pos + 1
                                               ELSE 1]))

\* The second loop of create_schedule_heuristic, from slot index i on.
RECURSIVE FillSlots(_, _, _, _, _)
FillSlots(i, time_slots, availability, schedule, employee_states) ==
    IF i > Len(time_slots) THEN schedule
    ELSE LET r == FillSlot(1, schedule[i],
                           AvailSetGet(availability, time_slots[i]),
                           employee_states)
         IN  FillSlots(i + 1, time_slots, availability,
                       [schedule EXCEPT ![i] = r.assignments], r.employee_states)

create_schedule_heuristic(employee_data_list) ==
    LET df_long == preprocess_employee_data(employee_data_list)
        time_slots == TimeSlots(df_long)
        pre == ConductorPrePass(
                   1, time_slots, HeuristicAvailability(df_long),
                   [i \in 1 .. Len(time_slots) |-> << >>],
                   [emp \in {r.EmployeeNameFML : r \in df_long} |-> 0 - 100])
    IN  IF df_long = {} THEN NoTable("nodata")
        ELSE Output("ok", "", time_slots,
                    FillSlots(1, time_slots, pre.availability, pre.schedule, << >>),
                    df_long)

\* ======================================================================
\* SECTION 5: backtracking (classic)
\* ======================================================================

\* prev_states.get(emp, {}) read with .get('last_pos') and .get('time_in_pos', 0).
ClassicGet(states, emp) ==
    IF emp \in DOMAIN states THEN states[emp]
    ELSE [last_pos |-> NoPos, time_in_pos |-> 0]

\* The check without its clause on consecutive Line Buster roles.
ClassicValidIgnoringLineBusters(assignments, minute, prev_states) ==
    \A pos \in DOMAIN assignments :
        LET st == ClassicGet(prev_states, assignments[pos])
        IN  /\ ~ (pos \notin LINE_BUSTER_ROLES /\ st.last_pos = pos /\ st.time_in_pos >= 2)
            /\ ~ (pos = "Conductor" /\ st.last_pos # "Conductor" /\ minute # 0)

is_assignment_valid_backtracking_classic(assignments, minute, prev_states) ==
    \A pos \in DOMAIN assignments :
        LET st == ClassicGet(prev_states, assignments[pos])
            last_pos == st.last_pos
            time_in_pos == st.time_in_pos
        IN  /\ ~ \/ (pos \in LINE_BUSTER_ROLES /\ last_pos \in LINE_BUSTER_ROLES)
                 \/ (pos = "Conductor" /\ last_pos = "Conductor" /\ time_in_pos >= 2)
                 \/ (pos \notin LINE_BUSTER_ROLES /\ pos # "Conductor"
                       /\ last_pos = pos /\ time_in_pos >= 2)
            /\ ~ (pos = "Conductor" /\ last_pos # "Conductor" /\ minute # 0)

\* new_states of the classic solvers.
ClassicNewStates(states, assignments) ==
    LET assigned == {assignments[pos] : pos \in DOMAIN assignments}
    IN  [emp \in (DOMAIN states) \cup assigned |->
            IF emp \in assigned
            THEN LET pos == CHOOSE q \in DOMAIN assignments : assignments[q] = emp
                     st == ClassicGet(states, emp)
                 IN  [last_pos |-> pos,
                      time_in_pos |-> IF st.last_pos = pos THEN st.time_in_pos + 1 ELSE 1]
            ELSE states[emp]]

\* The result is (solved, the shared schedule list as the call leaves it); the
\* code returns the list itself when solved and None otherwise.
RECURSIVE solve_classic_recursive(_, _, _, _, _)
RECURSIVE ClassicLoop(_, _, _, _, _, _, _)
ClassicLoop(perms, k, time_idx, time_slots, availability, schedule, states) ==
    IF k > Len(perms) THEN [solved |-> FALSE, schedule |-> schedule]
    ELSE LET assignments == Assignments(perms[k]) IN
         IF is_assignment_valid_backtracking_classic(
                assignments, Minute(time_slots[time_idx]), states)
         THEN LET r == solve_classic_recursive(
                           time_idx + 1, time_slots, availability,
                           [schedule EXCEPT ![time_idx] = assignments],
                           ClassicNewStates(states, assignments))
              IN  IF r.solved THEN r
                  ELSE ClassicLoop(perms, k + 1, time_idx, time_slots, availability,
                                   r.schedule, states)
         ELSE ClassicLoop(perms, k + 1, time_idx, time_slots, availability,
                          schedule, states)
solve_classic_recursive(time_idx, time_slots, availability, schedule, states) ==
    IF time_idx > Len(time_slots) THEN [solved |-> TRUE, schedule |-> schedule]
    ELSE LET avail_emps == AvailGet(availability, time_slots[time_idx]) IN
         IF Len(avail_emps) > Len(WORK_POSITIONS)
         THEN [solved |-> FALSE, schedule |-> schedule]
         ELSE ClassicLoop(permutations(avail_emps), 1, time_idx, time_slots,
                          availability, schedule, states)

create_schedule_backtracking_classic(employee_data_list) ==
    LET df_long == preprocess_employee_data(employee_data_list)
        time_slots == TimeSlots(df_long)
        r == solve_classic_recursive(1, time_slots, Availability(df_long),
                                     [i \in 1 .. Len(time_slots) |-> << >>], << >>)
    IN  IF df_long = {} THEN NoTable("nodata")
        ELSE IF ~r.solved THEN NoTable("fail")
        ELSE Output("ok", "", time_slots, r.schedule, df_long)

\* ======================================================================
\* SECTION 3: backtracking (phoenix edition)
\* ======================================================================

\* float('inf') is the empty sequence and a finite cost c is << c >>.
Inf == << >>
Fin(c) == << c >>
\* a < b, a <= b and b - c for costs a, b and a finite number c.
CostLt(a, b) == a # Inf /\ (b = Inf \/ a[1] < b[1])
CostLe(a, b) == b = Inf \/ (a # Inf /\ a[1] <= b[1])
CostSub(b, c) == IF b = Inf THEN Inf ELSE Fin(b[1] - c)

\* prev_states.get(emp, {}) read with the defaults of the .get calls.
PhoenixGet(prev_states, emp) ==
    IF emp \in DOMAIN prev_states THEN prev_states[emp]
    ELSE [last_pos |-> NoPos, time_in_pos |-> 0, history |-> << >>,
          last_top_tier |-> 100]

calculate_assignment_cost(pos, emp, prev_state, minute) ==
    LET last_pos == prev_state.last_pos
        last_top_tier == prev_state.last_top_tier
        history == prev_state.history
    IN  (IF pos = last_pos /\ pos # "Conductor" THEN 10 ELSE 0)
      + (IF Len(history) >= 3 /\ history[Len(history) - 1] = pos THEN 5 ELSE 0)
      + (IF pos \in LINE_BUSTER_ROLES /\ last_pos \in LINE_BUSTER_ROLES
         THEN 1000 ELSE 0)
      - (IF pos \in TOP_TIER_ROLES THEN last_top_tier ELSE 0)
      + (IF pos = "Conductor" /\ last_pos # "Conductor" /\ minute # 0
         THEN 500 ELSE 0)

\* current_cost: the sum over the assignments of a slot.
RECURSIVE CostOver(_, _, _, _)
CostOver(positions, assignments, prev_states, minute) ==
    IF positions = {} THEN 0
    ELSE LET pos == CHOOSE q \in positions : TRUE
         IN  calculate_assignment_cost(
                 pos, assignments[pos],
                 PhoenixGet(prev_states, assignments[pos]), minute)
             + CostOver(positions \ {pos}, assignments, prev_states, minute)

CurrentCost(assignments, prev_states, minute) ==
    CostOver(DOMAIN assignments, assignments, prev_states, minute)

\* is_hard_violation of the phoenix solvers.
IsHardViolation(assignments, prev_states) ==
    \E pos \in DOMAIN assignments :
        LET st == PhoenixGet(prev_states, assignments[pos])
            last_pos == st.last_pos
            time_in_pos == st.time_in_pos
        IN  \/ (pos = "Conductor" /\ last_pos = "Conductor" /\ time_in_pos >= 2)
            \/ (pos \notin LINE_BUSTER_ROLES /\ pos # "Conductor"
                  /\ last_pos = pos /\ time_in_pos >= 2)

\* (history + [pos])[-4:]
Last4(h) == IF Len(h) > 4 THEN SubSeq(h, Len(h) - 3, Len(h)) ELSE h

\* new_states of the phoenix solvers.
PhoenixNewStates(prev_states, assignments) ==
    LET assigned == {assignments[pos] : pos \in DOMAIN assignments}
    IN  [emp \in (DOMAIN prev_states) \cup assigned |->
            IF emp \in assigned
            THEN LET pos == CHOOSE q \in DOMAIN assignments : assignments[q] = emp
                     st == PhoenixGet(prev_states, emp)
                 IN  [last_pos |-> pos,
                      time_in_pos |-> IF st.last_pos = pos
                                      THEN st.time_in_pos + 1 ELSE 1,
                      history |-> Last4(Append(st.history, pos)),
                      last_top_tier |-> IF pos \in TOP_TIER_ROLES THEN 0
                                        ELSE st.last_top_tier + 1]
            ELSE prev_states[emp]]

\* state_key = (time_idx, tuple(sorted(prev_states.items()))).
StateKey(time_idx, prev_states) == << time_idx, prev_states >>

\* "state_key in memo_cache" hashes the key.  The items of prev_states are
\* (name, dict) pairs and a dict is unhashable: every key built from a
\* non-empty prev_states raises TypeError.
Hashable(state_key) == DOMAIN state_key[2] = {}

\* The result of a call: raised (a TypeError leaves the call), the returned
\* cost, some (the returned schedule is the shared list, not None), and the
\* shared schedule list and memo_cache as the call leaves them.
PhoenixResult(raised, cost, some, schedule, memo) ==
    [raised |-> raised, cost |-> cost, some |-> some, schedule |-> schedule,
     memo |-> memo]

RECURSIVE solve_phoenix_recursive(_, _, _, _, _, _, _)
RECURSIVE PhoenixLoop(_, _, _, _, _, _, _, _, _, _)
PhoenixLoop(perms, k, time_idx, time_slots, availability, schedule, prev_states, best_cost_at_level, best_some, memo) ==
    IF k > Len(perms)
    THEN PhoenixResult(FALSE, best_cost_at_level, best_some, schedule, memo)
    ELSE LET assignments == Assignments(perms[k])
             current_cost == CurrentCost(assignments, prev_states,
                                         Minute(time_slots[time_idx]))
         IN
         IF \/ IsHardViolation(assignments, prev_states)
            \/ CostLe(best_cost_at_level, Fin(current_cost))
         THEN PhoenixLoop(perms, k + 1, time_idx, time_slots, availability, schedule,
                          prev_states, best_cost_at_level, best_some, memo)
         ELSE LET r == solve_phoenix_recursive(
                           time_idx + 1, time_slots, availability, schedule,
                           PhoenixNewStates(prev_states, assignments),
                           CostSub(best_cost_at_level, current_cost), memo)
                  total_cost == Fin(current_cost + r.cost[1])
              IN  IF r.raised THEN r
                  ELSE IF r.cost # Inf /\ CostLt(total_cost, best_cost_at_level)
                  THEN PhoenixLoop(perms, k + 1, time_idx, time_slots, availability,
                                   [r.schedule EXCEPT ![time_idx] = assignments],
                                   prev_states, total_cost, TRUE, r.memo)
                  ELSE PhoenixLoop(perms, k + 1, time_idx, time_slots, availability,
                                   r.schedule, prev_states, best_cost_at_level,
                                   best_some, r.memo)
solve_phoenix_recursive(time_idx, time_slots, availability, schedule, prev_states, best_cost_so_far, memo) ==
    LET state_key == StateKey(time_idx, prev_states) IN
    IF ~Hashable(state_key) THEN PhoenixResult(TRUE, Inf, FALSE, schedule, memo)
    ELSE IF state_key \in DOMAIN memo /\ CostLe(memo[state_key].cost, best_cost_so_far)
    THEN PhoenixResult(FALSE, memo[state_key].cost, memo[state_key].some, schedule, memo)
    ELSE IF time_idx > Len(time_slots)
    THEN PhoenixResult(FALSE, Fin(0), TRUE, schedule, memo)
    ELSE LET avail_emps == AvailGet(availability, time_slots[time_idx]) IN
         IF Len(avail_emps) > Len(WORK_POSITIONS)
         THEN PhoenixResult(FALSE, Inf, FALSE, schedule, memo)
         ELSE LET r == PhoenixLoop(permutations(avail_emps), 1, time_idx, time_slots,
                                   availability, schedule, prev_states,
                                   best_cost_so_far, FALSE, memo)
                  cost == IF r.some THEN r.cost ELSE Inf
                  stored == [key \in (DOMAIN r.memo) \cup {state_key} |->
                                IF key = state_key
                                THEN [cost |-> cost, some |-> r.some]
                                ELSE r.memo[key]]
              IN  IF r.raised THEN r
                  ELSE PhoenixResult(FALSE, cost, r.some, r.schedule, stored)

\* The note of create_schedule_phoenix, chosen from total_cost.
PhoenixNote(total_cost) ==
    IF total_cost >= 1000 THEN "Line Buster"
    ELSE IF total_cost >= 500 THEN "Conductor"
    ELSE ""

\* The top-level solver call of create_schedule_phoenix, on a fresh memo_cache.
PhoenixSolve(employee_data_list) ==
    LET df_long == preprocess_employee_data(employee_data_list)
        time_slots == TimeSlots(df_long)
    IN  solve_phoenix_recursive(1, time_slots, Availability(df_long),
                                [i \in 1 .. Len(time_slots) |-> << >>], << >>,
                                Inf, << >>)

\* The relaxation tier of the rules that solve_phoenix_recursive enforces as
\* hard: 0 if a permutation that newly places a Conductor is rejected in an
\* off-hour slot (the check is not given the slot time, so in any slot), else
\* 1 if a third consecutive slot in a station position is rejected, else 2.
PhoenixTier ==
    LET twice == [last_pos |-> "Handout", time_in_pos |-> 2, history |-> << >>,
                  last_top_tier |-> 0]
    IN  IF IsHardViolation(Assignments(<< 1, 2, 3 >>), << >>) THEN 0
        ELSE IF IsHardViolation(Assignments(<< 1 >>), << twice >>) THEN 1
        ELSE 2

create_schedule_phoenix(employee_data_list) ==
    LET df_long == preprocess_employee_data(employee_data_list)
        time_slots == TimeSlots(df_long)
        r == PhoenixSolve(employee_data_list)
        ran(out) == [out EXCEPT !.solver_tiers = << PhoenixTier >>]
    IN  IF df_long = {} THEN NoTable("nodata")
        ELSE IF r.raised THEN ran(NoTable("raised"))
        ELSE IF ~r.some THEN ran(NoTable("fail"))
        ELSE [ran(Output("ok", PhoenixNote(r.cost[1]), time_slots, r.schedule,
                         df_long))
                 EXCEPT !.total_cost = r.cost]

\* memo_cache as create_schedule_phoenix leaves it.
PhoenixMemoAfter(employee_data_list) ==
    IF preprocess_employee_data(employee_data_list) = {} THEN << >>
    ELSE PhoenixSolve(employee_data_list).memo

\* ======================================================================
\* SECTION 4: phoenix (limited conductor breaks)
\* ======================================================================

\* current_breaks: the off-hour new Conductor starts of a slot's assignments.
CurrentBreaks(assignments, last_pos_of, minute) ==
    Cardinality({pos \in DOMAIN assignments :
                    /\ pos = "Conductor"
                    /\ last_pos_of[assignments[pos]] # "Conductor"
                    /\ minute # 0})

\* The result is (cost, some: the returned schedule is the shared list, not
\* None, and the shared schedule list as the call leaves it).
RECURSIVE solve_phoenix_limited_breaks_recursive(_, _, _, _, _, _, _)
RECURSIVE PhoenixLimitedLoop(_, _, _, _, _, _, _, _, _, _)
PhoenixLimitedLoop(perms, k, time_idx, time_slots, availability, schedule, prev_states, best_cost_at_level, best_some, conductor_breaks_count) ==
    IF k > Len(perms)
    THEN [cost |-> best_cost_at_level, some |-> best_some, schedule |-> schedule]
    ELSE LET assignments == Assignments(perms[k])
             minute == Minute(time_slots[time_idx])
             last_pos_of == [emp \in Range(perms[k]) |->
                                PhoenixGet(prev_states, emp).last_pos]
             current_breaks == CurrentBreaks(assignments, last_pos_of, minute)
             current_cost == CurrentCost(assignments, prev_states, minute)
         IN
         IF \/ conductor_breaks_count + current_breaks > 2
            \/ IsHardViolation(assignments, prev_states)
            \/ CostLe(best_cost_at_level, Fin(current_cost))
         THEN PhoenixLimitedLoop(perms, k + 1, time_idx, time_slots, availability,
                                 schedule, prev_states, best_cost_at_level,
                                 best_some, conductor_breaks_count)
         ELSE LET r == solve_phoenix_limited_breaks_recursive(
                           time_idx + 1, time_slots, availability, schedule,
                           PhoenixNewStates(prev_states, assignments),
                           CostSub(best_cost_at_level, current_cost),
                           conductor_breaks_count + current_breaks)
                  total_cost == Fin(current_cost + r.cost[1])
              IN  IF r.cost # Inf /\ CostLt(total_cost, best_cost_at_level)
                  THEN PhoenixLimitedLoop(
                           perms, k + 1, time_idx, time_slots, availability,
                           [r.schedule EXCEPT ![time_idx] = assignments],
                           prev_states, total_cost, TRUE, conductor_breaks_count)
                  ELSE PhoenixLimitedLoop(
                           perms, k + 1, time_idx, time_slots, availability,
                           r.schedule, prev_states, best_cost_at_level, best_some,
                           conductor_breaks_count)
solve_phoenix_limited_breaks_recursive(time_idx, time_slots, availability, schedule, prev_states, best_cost_so_far, conductor_breaks_count) ==
    IF time_idx > Len(time_slots)
    THEN [cost |-> Fin(0), some |-> TRUE, schedule |-> schedule]
    ELSE LET avail_emps == AvailGet(availability, time_slots[time_idx]) IN
         IF Len(avail_emps) > Len(WORK_POSITIONS)
         THEN [cost |-> Inf, some |-> FALSE, schedule |-> schedule]
         ELSE LET r == PhoenixLimitedLoop(
                           permutations(avail_emps), 1, time_idx, time_slots,
                           availability, schedule, prev_states, best_cost_so_far,
                           FALSE, conductor_breaks_count)
              IN  IF r.some THEN r
                  ELSE [cost |-> Inf, some |-> FALSE, schedule |-> r.schedule]

create_schedule_phoenix_limited(employee_data_list) ==
    LET df_long == preprocess_employee_data(employee_data_list)
        time_slots == TimeSlots(df_long)
        r == solve_phoenix_limited_breaks_recursive(
                 1, time_slots, Availability(df_long),
                 [i \in 1 .. Len(time_slots) |-> << >>], << >>, Inf, 0)
    IN  IF df_long = {} THEN NoTable("nodata")
        ELSE IF ~r.some THEN NoTable("fail")
        ELSE Output("ok", "Conductor", time_slots, r.schedule, df_long)

\* ======================================================================
\* SECTION 6: classic (limited conductor breaks)
\* ======================================================================

\* is_valid of solve_classic_limited_breaks_recursive.
ClassicLimitedIsValid(assignments, states) ==
    \A pos \in DOMAIN assignments :
        LET st == ClassicGet(states, assignments[pos])
            last_pos == st.last_pos
            time_in_pos == st.time_in_pos
        IN  ~ \/ (pos \in LINE_BUSTER_ROLES /\ last_pos \in LINE_BUSTER_ROLES)
              \/ (pos = "Conductor" /\ last_pos = "Conductor" /\ time_in_pos >= 2)
              \/ (pos \notin LINE_BUSTER_ROLES /\ pos # "Conductor"
                    /\ last_pos = pos /\ time_in_pos >= 2)

RECURSIVE solve_classic_limited_breaks_recursive(_, _, _, _, _, _)
RECURSIVE ClassicLimitedLoop(_, _, _, _, _, _, _, _)
ClassicLimitedLoop(perms, k, time_idx, time_slots, availability, schedule, states, conductor_breaks_count) ==
    IF k > Len(perms) THEN [solved |-> FALSE, schedule |-> schedule]
    ELSE LET assignments == Assignments(perms[k])
             last_pos_of == [emp \in Range(perms[k]) |->
                                ClassicGet(states, emp).last_pos]
             \* counted up to the first invalid assignment only, and then unused
             current_breaks == CurrentBreaks(assignments, last_pos_of,
                                             Minute(time_slots[time_idx]))
         IN
         IF \/ ~ClassicLimitedIsValid(assignments, states)
            \/ conductor_breaks_count + current_breaks > 2
         THEN ClassicLimitedLoop(perms, k + 1, time_idx, time_slots, availability,
                                 schedule, states, conductor_breaks_count)
         ELSE LET r == solve_classic_limited_breaks_recursive(
                           time_idx + 1, time_slots, availability,
                           [schedule EXCEPT ![time_idx] = assignments],
                           ClassicNewStates(states, assignments),
                           conductor_breaks_count + current_breaks)
              IN  IF r.solved THEN r
                  ELSE ClassicLimitedLoop(perms, k + 1, time_idx, time_slots,
                                          availability, r.schedule, states,
                                          conductor_breaks_count)
solve_classic_limited_breaks_recursive(time_idx, time_slots, availability, schedule, states, conductor_breaks_count) ==
    IF time_idx > Len(time_slots) THEN [solved |-> TRUE, schedule |-> schedule]
    ELSE LET avail_emps == AvailGet(availability, time_slots[time_idx]) IN
         IF Len(avail_emps) > Len(WORK_POSITIONS)
         THEN [solved |-> FALSE, schedule |-> schedule]
         ELSE ClassicLimitedLoop(permutations(avail_emps), 1, time_idx, time_slots,
                                 availability, schedule, states,
                                 conductor_breaks_count)

create_schedule_classic_limited(employee_data_list) ==
    LET df_long == preprocess_employee_data(employee_data_list)
        time_slots == TimeSlots(df_long)
        r == solve_classic_limited_breaks_recursive(
                 1, time_slots, Availability(df_long),
                 [i \in 1 .. Len(time_slots) |-> << >>], << >>, 0)
    IN  IF df_long = {} THEN NoTable("nodata")
        ELSE IF ~r.solved THEN NoTable("fail")
        ELSE Output("ok", "Conductor", time_slots, r.schedule, df_long)

\* ======================================================================
\* SECTION 7: phoenix (diverse)
\* ======================================================================

\* The frame df read back from the table: df.rows[i] holds the work cells of
\* column i (position -> name, an empty cell is absent), df.Break[i] and
\* df.ToffTL[i] the names joined in the Break and ToffTL cells.
Frame(rows, break, tofftl) == [rows |-> rows, Break |-> break, ToffTL |-> tofftl]

NumColumns(df) == Len(df.rows)

\* The entries that the cells of column i give employee emp, in row order.  A
\* Break or ToffTL cell is one string: it is the key emp only when it holds
\* that one name.
RECURSIVE WorkEntries(_, _, _, _)
WorkEntries(df, emp, i, j) ==
    IF j > Len(WORK_POSITIONS) THEN << >>
    ELSE LET pos == WORK_POSITIONS[j] IN
         (IF pos \in DOMAIN df.rows[i] /\ df.rows[i][pos] = emp
          THEN << [time_idx |-> i, pos |-> pos] >> ELSE << >>)
         \o WorkEntries(df, emp, i, j + 1)

ColumnEntries(df, emp, i) ==
    WorkEntries(df, emp, i, 1)
    \o (IF df.Break[i] = {emp} THEN << [time_idx |-> i, pos |-> "Break"] >>
        ELSE << >>)
    \o (IF df.ToffTL[i] = {emp} THEN << [time_idx |-> i, pos |-> "ToffTL"] >>
        ELSE << >>)

RECURSIVE EntriesFrom(_, _, _)
EntriesFrom(df, emp, i) ==
    IF i > NumColumns(df) THEN << >>
    ELSE ColumnEntries(df, emp, i) \o EntriesFrom(df, emp, i + 1)

\* employee_schedule_map, for the names that stand alone in a cell.
EmployeeScheduleMap(df) ==
    LET names == UNION {{df.rows[i][pos] : pos \in DOMAIN df.rows[i]}
                        \cup (IF Cardinality(df.Break[i]) = 1 THEN df.Break[i] ELSE {})
                        \cup (IF Cardinality(df.ToffTL[i]) = 1 THEN df.ToffTL[i] ELSE {})
                        : i \in 1 .. NumColumns(df)}
    IN  [emp \in names |-> EntriesFrom(df, emp, 1)]

\* next(item for item in reversed(items) if item['time_idx'] < time_idx), as
\* a set of at most one.
LastBefore(items, time_idx) ==
    LET hits == SelectSeq(items, LAMBDA item : item.time_idx < time_idx)
    IN  IF hits = << >> THEN {} ELSE {hits[Len(hits)]}

\* next(item for item in items if item['time_idx'] > time_idx), as a set of
\* at most one.
FirstAfter(items, time_idx) ==
    LET hits == SelectSeq(items, LAMBDA item : item.time_idx > time_idx)
    IN  IF hits = << >> THEN {} ELSE {hits[1]}

check_employee_validity(num_columns, employee_schedule_map, emp_name, new_pos, current_time_idx) ==
    LET items == employee_schedule_map[emp_name]
        prev == LastBefore(items, current_time_idx)
        previous_ok ==
            \A prev_assignment \in prev :
                LET last_pos == prev_assignment.pos
                    prev_prev == LastBefore(items, prev_assignment.time_idx)
                IN  /\ ~ (new_pos \in LINE_BUSTER_ROLES /\ new_pos = last_pos)
                    /\ ~ /\ new_pos \notin LINE_BUSTER_ROLES
                         /\ new_pos # "Conductor"
                         /\ new_pos = last_pos
                         /\ current_time_idx > 2
                         /\ \E prev_prev_assignment \in prev_prev :
                                prev_prev_assignment.pos = new_pos
        next == FirstAfter(items, current_time_idx)
        next_ok ==
            \A next_assignment \in next :
                ~ (next_assignment.pos \in LINE_BUSTER_ROLES
                     /\ next_assignment.pos = new_pos)
    IN  /\ (current_time_idx > 1 => previous_ok)
        /\ (current_time_idx < num_columns => next_ok)

is_swap_safe(df, time_idx, emp1_name, emp2_name, pos1, pos2, employee_schedule_map) ==
    /\ check_employee_validity(NumColumns(df), employee_schedule_map, emp1_name,
                               pos2, time_idx)
    /\ check_employee_validity(NumColumns(df), employee_schedule_map, emp2_name,
                               pos1, time_idx)

\* is_repetitive for the employee found at current_pos in column time_idx.
IsRepetitive(employee_schedule_map, emp_name, current_pos, time_idx) ==
    LET emp_history == SelectSeq(employee_schedule_map[emp_name],
                                 LAMBDA item : item.time_idx <= time_idx)
        n == Len(emp_history)
        recent == IF n > 3 THEN SubSeq(emp_history, n - 2, n) ELSE emp_history
    IN  \/ /\ n >= 2
           /\ emp_history[n].pos = current_pos
           /\ time_idx - emp_history[n - 1].time_idx > 1
        \/ Cardinality({k \in 1 .. Len(recent) : recent[k].pos = current_pos}) > 1

\* The swaps a sweep may make: column time_idx, the row indices of
\* current_pos and other_pos.
SwapCandidates(df, employee_schedule_map) ==
    {sw \in (1 .. NumColumns(df)) \X (1 .. Len(WORK_POSITIONS))
              \X (1 .. Len(WORK_POSITIONS)) :
        LET cells == df.rows[sw[1]]
            current_pos == WORK_POSITIONS[sw[2]]
            other_pos == WORK_POSITIONS[sw[3]]
        IN  /\ current_pos # "Conductor"
            /\ current_pos \in DOMAIN cells
            /\ other_pos # current_pos
            /\ other_pos \in DOMAIN cells
            /\ cells[other_pos] # cells[current_pos]
            /\ IsRepetitive(employee_schedule_map, cells[current_pos], current_pos,
                            sw[1])
            /\ is_swap_safe(df, sw[1], cells[current_pos], cells[other_pos],
                            current_pos, other_pos, employee_schedule_map)}

\* The first candidate in the order of the three nested loops.
FirstSwap(candidates) ==
    CHOOSE sw \in candidates :
        \A o \in candidates :
            \/ sw[1] < o[1]
            \/ (sw[1] = o[1] /\ sw[2] < o[2])
            \/ (sw[1] = o[1] /\ sw[2] = o[2] /\ sw[3] <= o[3])

\* A swap that writes the partner into the repetitive cell and leaves the
\* partner's own cell as it was.
SwapCellsOverwriting(df, sw) ==
    LET current_pos == WORK_POSITIONS[sw[2]]
        other_pos == WORK_POSITIONS[sw[3]]
        cells == df.rows[sw[1]]
    IN  [df EXCEPT !.rows[sw[1]] = [cells EXCEPT ![current_pos] = cells[other_pos]]]

\* df after the swap sw.
SwapCells(df, sw) ==
    LET current_pos == WORK_POSITIONS[sw[2]]
        other_pos == WORK_POSITIONS[sw[3]]
        cells == df.rows[sw[1]]
    IN  [df EXCEPT !.rows[sw[1]] =
            [cells EXCEPT ![current_pos] = cells[other_pos],
                          ![other_pos] = cells[current_pos]]]

\* employee_schedule_map after the swap sw: every item of the two employees
\* at that time index is given the other position.
SwapItems(df, employee_schedule_map, sw) ==
    LET current_pos == WORK_POSITIONS[sw[2]]
        other_pos == WORK_POSITIONS[sw[3]]
        emp_name == df.rows[sw[1]][current_pos]
        other_emp == df.rows[sw[1]][other_pos]
        moved(items, pos) ==
            [k \in 1 .. Len(items) |->
                IF items[k].time_idx = sw[1] THEN [items[k] EXCEPT !.pos = pos]
                ELSE items[k]]
    IN  [emp \in DOMAIN employee_schedule_map |->
            IF emp = emp_name THEN moved(employee_schedule_map[emp], other_pos)
            ELSE IF emp = other_emp THEN moved(employee_schedule_map[emp], current_pos)
            ELSE employee_schedule_map[emp]]

\* range(5): the number of sweep passes.
SweepPasses == 5

\* ======================================================================
\* The program: a roster and calls of the entry points
\* ======================================================================

VARIABLES
    employee_data_list,     \* the input of the calls
    memo_cache,             \* the module-level memoization cache
    pc,                     \* "idle", "sweep" (in the diversification loop), "returned"
    entry,                  \* the entry point called
    result,                 \* what the entry point returned (initial_schedule_csv in "sweep")
    df,                     \* the frame of the diversification loop
    employee_schedule_map,  \* its per-employee map
    swaps_made,             \* its swap counter
    passes,                 \* the sweep passes done
    threads,                \* the runs of create_schedule_phoenix in threads of the process
    memo_schedule           \* the schedule list that the entries of memo_cache hold

vars == << employee_data_list, memo_cache, pc, entry, result, df,
           employee_schedule_map, swaps_made, passes, threads, memo_schedule >>

diverse_vars == << df, employee_schedule_map, swaps_made, passes >>

\* The entry point name has returned to its caller.
Returned(name) == pc = "returned" /\ entry = name

\* At most this many employees of a roster have a break, and at most this
\* many a training block.
MaxBreaks == 1
MaxToffTL == 1

\* The shifts an employee may have: none, or [s, e) inside the day.
ShiftChoices ==
    {<< >>} \cup {<< s, e >> : s \in Times, e \in 1 .. MaxT}

\* The break (or training) starts of a roster: a time for at most n employees.
StartChoices(n, times) ==
    UNION {[S -> times] : S \in {X \in SUBSET Emps : Cardinality(X) <= n}}

RostersOf(shifts, times) ==
    {[e \in Emps |->
        EmployeeData(sh[e],
                     IF e \in DOMAIN b THEN {b[e]} ELSE {},
                     IF e \in DOMAIN t THEN {t[e]} ELSE {})]
     : sh \in [Emps -> shifts],
       b \in StartChoices(MaxBreaks, times),
       t \in StartChoices(MaxToffTL, times)}

Rosters == RostersOf({c \in ShiftChoices : c = << >> \/ c[1] < c[2]}, Times)

NoFrame == Frame(<< >>, << >>, << >>)

\* create_schedule_phoenix after "memo_cache = {}", run on the memo_cache memo
\* whose entries hold the list memo_list.  PhoenixReads: the top-level call of
\* the solver is answered from the cache.
PhoenixReads(roster, memo) ==
    preprocess_employee_data(roster) # {} /\ StateKey(1, << >>) \in DOMAIN memo

\* The top-level call of the solver on that cache.
PhoenixSolveOnMemo(roster, memo) ==
    LET df_long == preprocess_employee_data(roster)
        time_slots == TimeSlots(df_long)
    IN  solve_phoenix_recursive(1, time_slots, Availability(df_long),
                                [i \in 1 .. Len(time_slots) |-> << >>], << >>,
                                Inf, memo)

\* What the function returns.  A cache entry holds the schedule list of the
\* run that stored it, so a top-level call answered from the cache returns
\* that list, and final_assignments[i] raises IndexError when the list is
\* shorter than time_slots.
PhoenixOutOnMemo(roster, memo, memo_list) ==
    LET df_long == preprocess_employee_data(roster)
        time_slots == TimeSlots(df_long)
        r == PhoenixSolveOnMemo(roster, memo)
        final_assignments == IF PhoenixReads(roster, memo) THEN memo_list ELSE r.schedule
        ran(out) == [out EXCEPT !.solver_tiers = << PhoenixTier >>]
    IN  IF df_long = {} THEN NoTable("nodata")
        ELSE IF r.raised THEN ran(NoTable("raised"))
        ELSE IF ~r.some THEN ran(NoTable("fail"))
        ELSE IF Len(final_assignments) < Len(time_slots) THEN ran(NoTable("raised"))
        ELSE [ran(Output("ok", PhoenixNote(r.cost[1]), time_slots,
                         SubSeq(final_assignments, 1, Len(time_slots)), df_long))
                 EXCEPT !.total_cost = r.cost]

\* memo_cache as the function leaves it, and the list its entries hold.
PhoenixMemoOnMemo(roster, memo) ==
    IF preprocess_employee_data(roster) = {} THEN memo
    ELSE PhoenixSolveOnMemo(roster, memo).memo

PhoenixListOnMemo(roster, memo, memo_list) ==
    IF PhoenixMemoOnMemo(roster, memo) = memo THEN memo_list
    ELSE PhoenixSolveOnMemo(roster, memo).schedule

\* The threads of the process that run create_schedule_phoenix: the app
\* server runs the script of each session in a thread of one process, and
\* the module of the solvers, with memo_cache, is imported once.
NThreads == 2
Threads == 1 .. NThreads

\* A thread that runs nothing.
IdleThread == [pc |-> "idle", roster |-> << >>, result |-> NoTable("none"), read |-> FALSE]
NoThreads == [t \in Threads |-> IdleThread]

Init ==
    /\ employee_data_list \in Rosters
    /\ memo_cache = << >>
    /\ pc = "idle"
    /\ entry = "none"
    /\ result = NoTable("none")
    /\ df = NoFrame
    /\ employee_schedule_map = << >>
    /\ swaps_made = 0
    /\ passes = 0
    /\ threads = NoThreads
    /\ memo_schedule = << >>

\* A call of an entry point runs to its return; pc is "idle" between calls.
CallHeuristic ==
    /\ pc = "idle"
    /\ pc' = "returned"
    /\ entry' = "create_schedule_heuristic"
    /\ result' = create_schedule_heuristic(employee_data_list)
    /\ UNCHANGED << employee_data_list, memo_cache, diverse_vars, threads, memo_schedule >>

CallPhoenix ==
    /\ pc = "idle"
    /\ pc' = "returned"
    /\ entry' = "create_schedule_phoenix"
    /\ result' = create_schedule_phoenix(employee_data_list)
    /\ memo_cache' = PhoenixMemoAfter(employee_data_list)
    /\ memo_schedule' = IF memo_cache' = << >> THEN << >>
                        ELSE PhoenixSolve(employee_data_list).schedule
    /\ UNCHANGED << employee_data_list, diverse_vars, threads >>

CallPhoenixLimited ==
    /\ pc = "idle"
    /\ pc' = "returned"
    /\ entry' = "create_schedule_phoenix_limited"
    /\ result' = create_schedule_phoenix_limited(employee_data_list)
    /\ UNCHANGED << employee_data_list, memo_cache, diverse_vars, threads, memo_schedule >>

CallClassic ==
    /\ pc = "idle"
    /\ pc' = "returned"
    /\ entry' = "create_schedule_backtracking_classic"
    /\ result' = create_schedule_backtracking_classic(employee_data_list)
    /\ UNCHANGED << employee_data_list, memo_cache, diverse_vars, threads, memo_schedule >>

CallClassicLimited ==
    /\ pc = "idle"
    /\ pc' = "returned"
    /\ entry' = "create_schedule_classic_limited"
    /\ result' = create_schedule_classic_limited(employee_data_list)
    /\ UNCHANGED << employee_data_list, memo_cache, diverse_vars, threads, memo_schedule >>

\* What create_schedule_phoenix_diverse has after its first statements: the
\* table of create_schedule_phoenix to diversify ("ok"), the could-not-find
\* message, which is returned as it is ("fail"), or an exception: one of
\* create_schedule_phoenix leaves this function too, and the no-data message
\* is not a table with a Position column, so set_index raises on it.
InitialScheduleCsv(roster) ==
    LET initial_schedule_csv == create_schedule_phoenix(roster)
    IN  IF initial_schedule_csv.kind \in {"ok", "fail"} THEN initial_schedule_csv
        ELSE NoTable("raised")

\* create_schedule_phoenix_diverse up to the loop.
CallPhoenixDiverse ==
    /\ pc = "idle"
    /\ entry' = "create_schedule_phoenix_diverse"
    /\ memo_cache' = PhoenixMemoAfter(employee_data_list)
    /\ result' = InitialScheduleCsv(employee_data_list)
    /\ pc' = IF result'.kind = "ok" THEN "sweep" ELSE "returned"
    /\ df' = IF result'.kind = "ok"
              THEN Frame(result'.rows, result'.Break, result'.ToffTL) ELSE df
    /\ employee_schedule_map' = IF result'.kind = "ok" THEN EmployeeScheduleMap(df')
                                 ELSE employee_schedule_map
    /\ swaps_made' = 0
    /\ passes' = 0
    /\ memo_schedule' = IF memo_cache' = << >> THEN << >>
                        ELSE PhoenixSolve(employee_data_list).schedule
    /\ UNCHANGED << employee_data_list, threads >>

\* One pass of "for _ in range(5)": the first repetitive cell, in column and
\* row order, that has a safe partner is swapped with its first safe partner;
\* the three loops are left at the first swap.
SweepPass ==
    /\ pc = "sweep"
    /\ passes < SweepPasses
    /\ passes' = passes + 1
    /\ LET candidates == SwapCandidates(df, employee_schedule_map) IN
       IF candidates = {}
       THEN UNCHANGED << df, employee_schedule_map, swaps_made >>
       ELSE /\ df' = SwapCells(df, FirstSwap(candidates))
            /\ employee_schedule_map' =
                   SwapItems(df, employee_schedule_map, FirstSwap(candidates))
            /\ swaps_made' = swaps_made + 1
    /\ UNCHANGED << employee_data_list, memo_cache, pc, entry, result, threads, memo_schedule >>

\* After the last pass the table of df is returned under the note.
DiverseReturn ==
    /\ pc = "sweep"
    /\ passes = SweepPasses
    /\ pc' = "returned"
    /\ result' = [result EXCEPT !.rows = df.rows]
    /\ UNCHANGED << employee_data_list, memo_cache, entry, diverse_vars, threads, memo_schedule >>

\* The caller takes the result; the module-level memo_cache stays.
NextRequest ==
    /\ pc = "returned"
    /\ pc' = "idle"
    /\ entry' = "none"
    /\ result' = NoTable("none")
    /\ df' = NoFrame
    /\ employee_schedule_map' = << >>
    /\ swaps_made' = 0
    /\ passes' = 0
    /\ UNCHANGED << employee_data_list, memo_cache, threads, memo_schedule >>

Next ==
    \/ CallHeuristic
    \/ CallPhoenix
    \/ CallPhoenixLimited
    \/ CallClassic
    \/ CallClassicLimited
    \/ CallPhoenixDiverse
    \/ SweepPass
    \/ DiverseReturn
    \/ NextRequest

Spec == Init /\ [][Next]_vars

\* ----------------------------------------------------------------------
\* The diversification loop on its own.  solve_phoenix_recursive hands the
\* loop no schedule with a filled work cell (see Hashable), so the loop is
\* also run from every table that create_schedule_phoenix builds out of a
\* complete schedule that passes the solver's hard-rule check at every slot
\* and has the least sum of per-slot costs among those.
\* ----------------------------------------------------------------------

\* The columns of the rosters whose schedules the loop is run on.
DiverseSlots == 4

\* Every complete schedule from slot time_idx on that passes the hard-rule
\* check of solve_phoenix_recursive at every slot, with the sum of its
\* per-slot costs.
RECURSIVE LegalSchedules(_, _, _, _)
LegalSchedules(time_idx, time_slots, availability, prev_states) ==
    IF time_idx > Len(time_slots) THEN {[schedule |-> << >>, cost |-> 0]}
    ELSE LET avail_emps == AvailGet(availability, time_slots[time_idx])
             perms == permutations(avail_emps)
         IN  IF Len(avail_emps) > Len(WORK_POSITIONS) THEN {}
             ELSE UNION {
                 LET assignments == Assignments(perms[k])
                     current_cost == CurrentCost(assignments, prev_states,
                                                 Minute(time_slots[time_idx]))
                 IN  IF IsHardViolation(assignments, prev_states) THEN {}
                     ELSE {[schedule |-> << assignments >> \o rest.schedule,
                            cost |-> current_cost + rest.cost]
                           : rest \in LegalSchedules(
                                 time_idx + 1, time_slots, availability,
                                 PhoenixNewStates(prev_states, assignments))}
                 : k \in 1 .. Len(perms)}

AllLegalSchedules(roster) ==
    LET df_long == preprocess_employee_data(roster)
    IN  LegalSchedules(1, TimeSlots(df_long), Availability(df_long), << >>)

\* The schedules of least total cost among them.
MinCostSchedules(roster) ==
    LET legal == AllLegalSchedules(roster)
    IN  {s \in legal : \A o \in legal : s.cost <= o.cost}

DiverseRosters == RostersOf({<< 0, DiverseSlots >>}, 0 .. (DiverseSlots - 1))

InitDiverse ==
    /\ employee_data_list \in DiverseRosters
    /\ memo_cache = << >>
    /\ pc = "sweep"
    /\ entry = "create_schedule_phoenix_diverse"
    /\ \E s \in MinCostSchedules(employee_data_list) :
          LET df_long == preprocess_employee_data(employee_data_list) IN
          /\ result = Output("ok", PhoenixNote(s.cost), TimeSlots(df_long),
                             s.schedule, df_long)
          /\ df = Frame(result.rows, result.Break, result.ToffTL)
    /\ employee_schedule_map = EmployeeScheduleMap(df)
    /\ swaps_made = 0
    /\ passes = 0
    /\ threads = NoThreads
    /\ memo_schedule = << >>

\* The loop applied to its own output: the returned table is read back as
\* df, employee_schedule_map is built from it anew and the counters start at
\* zero, as at the head of create_schedule_phoenix_diverse.  result keeps the
\* table the second application starts from.
OnOwnOutput == "create_schedule_phoenix_diverse on its own output"

SwapLoopAgain ==
    /\ Returned("create_schedule_phoenix_diverse")
    /\ result.kind = "ok"
    /\ pc' = "sweep"
    /\ entry' = OnOwnOutput
    /\ df' = Frame(result.rows, result.Break, result.ToffTL)
    /\ employee_schedule_map' = EmployeeScheduleMap(df')
    /\ swaps_made' = 0
    /\ passes' = 0
    /\ UNCHANGED << employee_data_list, memo_cache, result, threads, memo_schedule >>

NextDiverse == SweepPass \/ DiverseReturn \/ SwapLoopAgain

SpecDiverse == InitDiverse /\ [][NextDiverse]_vars

\* The loop is straight-line code of one call: a pass that can run runs, and
\* the function returns after the last one.
SpecDiverseFair == SpecDiverse /\ WF_vars(SweepPass) /\ WF_vars(DiverseReturn)

\* ----------------------------------------------------------------------
\* Runs of create_schedule_phoenix in the threads of one process.  A run is
\* two steps, the reset of memo_cache and the rest of the function; the
\* threads are switched between the steps.
\* ----------------------------------------------------------------------

\* The rosters of the threaded runs: a shift of two slots or none, a break or
\* a training block at its start.
ThreadRosters == RostersOf({<< >>, << 0, ToffTLLength >>}, {0})

call_vars == << employee_data_list, pc, entry, result, diverse_vars >>

InitThreads ==
    /\ employee_data_list = [e \in Emps |-> EmployeeData(<< >>, {}, {})]
    /\ memo_cache = << >>
    /\ pc = "idle"
    /\ entry = "none"
    /\ result = NoTable("none")
    /\ df = NoFrame
    /\ employee_schedule_map = << >>
    /\ swaps_made = 0
    /\ passes = 0
    /\ threads = NoThreads
    /\ memo_schedule = << >>

\* "global memo_cache; memo_cache = {}" of a run.
ThreadReset(t) ==
    /\ threads[t].pc = "idle"
    /\ \E roster \in ThreadRosters :
          threads' = [threads EXCEPT ![t] = [IdleThread EXCEPT !.pc = "reset", !.roster = roster]]
    /\ memo_cache' = << >>
    /\ memo_schedule' = << >>
    /\ UNCHANGED call_vars

\* The rest of the run, on the memo_cache of the module as it is by then.
ThreadSolve(t) ==
    /\ threads[t].pc = "reset"
    /\ threads' = [threads EXCEPT
                      ![t].pc = "returned",
                      ![t].result = PhoenixOutOnMemo(threads[t].roster, memo_cache, memo_schedule),
                      ![t].read = PhoenixReads(threads[t].roster, memo_cache)]
    /\ memo_cache' = PhoenixMemoOnMemo(threads[t].roster, memo_cache)
    /\ memo_schedule' = PhoenixListOnMemo(threads[t].roster, memo_cache, memo_schedule)
    /\ UNCHANGED call_vars

\* The thread takes the result and is free for its next run.
ThreadReturn(t) ==
    /\ threads[t].pc = "returned"
    /\ threads' = [threads EXCEPT ![t] = IdleThread]
    /\ UNCHANGED << call_vars, memo_cache, memo_schedule >>

NextThreads == \E t \in Threads : ThreadReset(t) \/ ThreadSolve(t) \/ ThreadReturn(t)

SpecThreads == InitThreads /\ [][NextThreads]_vars

\* ----------------------------------------------------------------------
\* The heuristic and the classic entry points on a longer day: every employee
\* on shift works the whole day, with a break or a training block anywhere.
\* ----------------------------------------------------------------------
LongDay == 4

LongDayRosters == RostersOf({<< >>, << 0, LongDay >>}, 0 .. (LongDay - 1))

InitLongDay ==
    /\ employee_data_list \in LongDayRosters
    /\ memo_cache = << >>
    /\ pc = "idle"
    /\ entry = "none"
    /\ result = NoTable("none")
    /\ df = NoFrame
    /\ employee_schedule_map = << >>
    /\ swaps_made = 0
    /\ passes = 0
    /\ threads = NoThreads
    /\ memo_schedule = << >>

NextLongDay ==
    CallHeuristic \/ CallPhoenix \/ CallClassic \/ CallClassicLimited \/ NextRequest

SpecLongDay == InitLongDay /\ [][NextLongDay]_vars

\* ----------------------------------------------------------------------
\* The heuristic on a crowded shift: up to NCrowd employees work the same
\* two slots, one more than there are work positions.
\* ----------------------------------------------------------------------
NCrowd == 9

CrowdRosters ==
    {[e \in 1 .. NCrowd |-> EmployeeData(sh[e], {}, {})]
     : sh \in [1 .. NCrowd -> {<< >>, << 0, ToffTLLength >>}]}

InitCrowd ==
    /\ employee_data_list \in CrowdRosters
    /\ memo_cache = << >>
    /\ pc = "idle"
    /\ entry = "none"
    /\ result = NoTable("none")
    /\ df = NoFrame
    /\ employee_schedule_map = << >>
    /\ swaps_made = 0
    /\ passes = 0
    /\ threads = NoThreads
    /\ memo_schedule = << >>

NextCrowd == CallHeuristic \/ NextRequest

SpecCrowd == InitCrowd /\ [][NextCrowd]_vars

\* ======================================================================
\* Properties
\* ======================================================================

\* The employees with a row of df_long at the time of column i: those on shift.
OnShift(i) ==
    {r.EmployeeNameFML :
        r \in {x \in preprocess_employee_data(employee_data_list) :
                  x.Time = result.time_slots[i]}}

\* How often employee emp is listed in column i of the returned table.
Listings(emp, i) ==
    Cardinality({pos \in DOMAIN result.rows[i] : result.rows[i][pos] = emp})
    + (IF emp \in result.Break[i] THEN 1 ELSE 0)
    + (IF emp \in result.ToffTL[i] THEN 1 ELSE 0)

Columns == 1 .. Len(result.time_slots)

\* C2: when a complete hard-legal schedule exists, the top-level call of
\* solve_phoenix_recursive returns the minimum, over all complete hard-legal
\* schedules, of the summed per-slot costs.
C2_ReturnsMinimumCost ==
    (Returned("create_schedule_phoenix") /\ result.kind # "nodata") =>
        LET legal == AllLegalSchedules(employee_data_list) IN
        legal # {} =>
            /\ result.kind = "ok"
            /\ \E s \in legal : result.total_cost = Fin(s.cost)
            /\ \A s \in legal : CostLe(result.total_cost, Fin(s.cost))

\* C3: the top-level call of solve_phoenix_recursive returns the failure
\* signal exactly when no complete hard-legal schedule exists, and returns a
\* schedule only when one exists.
C3_FailureIffNoLegalSchedule ==
    (Returned("create_schedule_phoenix") /\ result.kind # "nodata") =>
        LET legal == AllLegalSchedules(employee_data_list) IN
        /\ (result.kind = "fail" <=> legal = {})
        /\ (result.kind = "ok" => legal # {})

\* C4: in every table returned by create_schedule_phoenix,
\* create_schedule_backtracking_classic or create_schedule_phoenix_diverse,
\* every column lists exactly the employees on shift, each exactly once.
C4_ColumnsListOnShiftOnce ==
    (/\ pc = "returned"
     /\ entry \in {"create_schedule_phoenix", "create_schedule_backtracking_classic",
                   "create_schedule_phoenix_diverse"}
     /\ result.kind = "ok") =>
        \A i \in Columns : \A emp \in Emps :
            Listings(emp, i) = IF emp \in OnShift(i) THEN 1 ELSE 0

\* C5: in every table an entry point returns, nobody holds a work position in
\* a column that lists them under Break or ToffTL, and nobody listed there is
\* in the availability of that slot.
C5_BreakAndWorkDisjoint ==
    (pc = "returned" /\ result.kind = "ok") =>
        \A i \in Columns :
            LET off == result.Break[i] \cup result.ToffTL[i]
                availability == Availability(
                                    preprocess_employee_data(employee_data_list))
            IN  /\ \A pos \in DOMAIN result.rows[i] : result.rows[i][pos] \notin off
                /\ off \cap Range(AvailGet(availability, result.time_slots[i])) = {}

\* A table with a column in which somebody works while somebody else is on
\* break or in training.
C5_Witness ==
    /\ pc = "returned"
    /\ result.kind = "ok"
    /\ \E i \in Columns :
          /\ DOMAIN result.rows[i] # {}
          /\ result.Break[i] # {}
          /\ result.ToffTL[i] # {}

\* C6: IsOnBreak and IsOnToffTL are never both true of one employee in one
\* slot, so no column of a returned table lists an employee under Break and
\* under ToffTL.
C6_BreakAndToffTLExclusive ==
    (pc = "returned" /\ result.kind = "ok") =>
        /\ \A r \in preprocess_employee_data(employee_data_list) :
              ~ (r.IsOnBreak /\ r.IsOnToffTL)
        /\ \A i \in Columns : result.Break[i] \cap result.ToffTL[i] = {}

\* C8: the first solver run of create_schedule_phoenix is at tier 0, every
\* later run is one tier above the run before it, and a run follows only a
\* failed run.
C8_TiersEscalateFromZero ==
    (pc = "returned" /\ entry \in {"create_schedule_phoenix",
                                    "create_schedule_phoenix_diverse"}) =>
        \A k \in 1 .. Len(result.solver_tiers) : result.solver_tiers[k] = k - 1

\* The employee in the cell of position pos of column i, as a set of at most one.
Holder(rows, i, pos) ==
    IF i \in 1 .. Len(rows) /\ pos \in DOMAIN rows[i] THEN {rows[i][pos]} ELSE {}

\* emp holds Line Buster roles in columns i and i + 1.
LineBusterTwice(rows, emp, i) ==
    /\ \E pos \in LINE_BUSTER_ROLES : emp \in Holder(rows, i, pos)
    /\ \E pos \in LINE_BUSTER_ROLES : emp \in Holder(rows, i + 1, pos)

\* emp holds position pos in columns i, i + 1 and i + 2.
SamePositionThrice(rows, emp, i, pos) ==
    \A k \in i .. (i + 2) : emp \in Holder(rows, k, pos)

FirstPositionsFilled(i) ==
    LET availability == Availability(preprocess_employee_data(employee_data_list))
        k == Len(AvailGet(availability, result.time_slots[i]))
    IN  k <= Len(WORK_POSITIONS)
            => DOMAIN result.rows[i] = {WORK_POSITIONS[j] : j \in 1 .. k}

\* C12 as stated: in every table a scheduler returns, a column with k
\* available employees has exactly the first k positions of the priority order
\* filled.
C12_FirstPositionsFilledByAll ==
    (pc = "returned" /\ result.kind = "ok") =>
        \A i \in Columns : FirstPositionsFilled(i)

\* C12 amended: the same for every scheduler but create_schedule_heuristic,
\* which places Conductor first and may leave a position empty.
C12_FirstPositionsFilledBySolvers ==
    (pc = "returned" /\ result.kind = "ok" /\ entry # "create_schedule_heuristic") =>
        \A i \in Columns : FirstPositionsFilled(i)

\* A backtracking scheduler returned a table with a column of one available
\* employee and a column of two.
C12_Witness ==
    /\ pc = "returned"
    /\ result.kind = "ok"
    /\ entry # "create_schedule_heuristic"
    /\ \E i \in Columns : Cardinality(DOMAIN result.rows[i]) = 1
    /\ \E i \in Columns : Cardinality(DOMAIN result.rows[i]) = 2

\* The roster has the one employee emp: emp has a shift, no break and no
\* training, and nobody else has a shift.
SingleEmployee(emp) ==
    /\ employee_data_list[emp].ShiftStart # {}
    /\ employee_data_list[emp].ShiftEnd # {}
    /\ employee_data_list[emp].Break = {}
    /\ employee_data_list[emp].ToffTLStart = {}
    /\ \A o \in Emps \ {emp} : employee_data_list[o].ShiftStart = {}

\* C13: for a roster of a single employee with a shift of n slots, no break
\* and no training, the solvers (create_schedule_phoenix and
\* create_schedule_backtracking_classic) return a table, not a failure, that
\* has the employee at Handout in every column and empty Break and ToffTL rows.
C13_SingleEmployeeHoldsHandout ==
    \A emp \in Emps :
        (/\ pc = "returned"
         /\ entry \in {"create_schedule_phoenix", "create_schedule_backtracking_classic"}
         /\ SingleEmployee(emp)) =>
            /\ result.kind = "ok"
            /\ \A i \in Columns :
                  /\ DOMAIN result.rows[i] = {"Handout"}
                  /\ result.rows[i]["Handout"] = emp
                  /\ result.Break[i] = {}
                  /\ result.ToffTL[i] = {}

\* Two employees with full-day shifts, nobody in training, and emp the only
\* one with a break, which starts on the hour at the time of column i and
\* has a column after it.
BreakScenario(emp, i) ==
    /\ Cardinality({e \in Emps : employee_data_list[e].ShiftStart # {}}) = 2
    /\ \A e \in Emps :
          /\ employee_data_list[e].ShiftStart \in {{}, {0}}
          /\ employee_data_list[e].ShiftStart = {0}
                => employee_data_list[e].ShiftEnd = {MaxT}
          /\ employee_data_list[e].ToffTLStart = {}
          /\ e # emp => employee_data_list[e].Break = {}
    /\ employee_data_list[emp].ShiftStart = {0}
    /\ i + 1 \in Columns
    /\ employee_data_list[emp].Break = {result.time_slots[i]}
    /\ Minute(result.time_slots[i]) = 0

\* emp is in no work cell of column i.
NotAtWork(emp, i) == \A pos \in DOMAIN result.rows[i] : result.rows[i][pos] # emp

\* C14 as stated: with two employees on overlapping full-day shifts and a
\* break of one of them starting on the hour (1:00 PM), the returned table
\* lists exactly that employee under Break in the column of the break start
\* and in the next column (1:30 PM), and at no work position in either.
C14_BreakListedInTwoSlots ==
    (pc = "returned" /\ result.kind = "ok") =>
        \A emp \in Emps : \A i \in Columns :
            BreakScenario(emp, i) =>
                /\ result.Break[i] = {emp}
                /\ result.Break[i + 1] = {emp}
                /\ NotAtWork(emp, i)
                /\ NotAtWork(emp, i + 1)

\* C14 amended: the table lists exactly that employee under Break in the
\* column of the break start, and at no work position there; the Break cell
\* of the next column is empty.
C14_BreakListedInOneSlot ==
    (pc = "returned" /\ result.kind = "ok") =>
        \A emp \in Emps : \A i \in Columns :
            BreakScenario(emp, i) =>
                /\ result.Break[i] = {emp}
                /\ NotAtWork(emp, i)
                /\ result.Break[i + 1] = {}

\* A solver returned a table for the scenario.
C14_Witness ==
    /\ pc = "returned"
    /\ result.kind = "ok"
    /\ entry = "create_schedule_backtracking_classic"
    /\ \E emp \in Emps : \E i \in Columns : BreakScenario(emp, i)


\* The columns of the roster's schedule in which no employee is available.
ZeroAvailableSlots ==
    LET df_long == preprocess_employee_data(employee_data_list)
        time_slots == TimeSlots(df_long)
    IN  {i \in 1 .. Len(time_slots) : AvailGet(Availability(df_long), time_slots[i]) = << >>}

\* The slots with someone available admit a schedule under the hard rules of
\* the solver that ran: the slots without anyone are left out of the question.
OtherSlotsSchedulable ==
    LET df_long == preprocess_employee_data(employee_data_list)
        availability == Availability(df_long)
        manned == SelectSeq(TimeSlots(df_long), LAMBDA t : AvailGet(availability, t) # << >>)
    IN  IF entry = "create_schedule_phoenix"
        THEN LegalSchedules(1, manned, availability, << >>) # {}
        ELSE solve_classic_recursive(1, manned, availability,
                                     [i \in 1 .. Len(manned) |-> << >>], << >>).solved

\* C15: a slot with zero available employees never by itself makes the phoenix
\* or the classic solver fail: when the other slots can be scheduled, the call
\* returns a table, and the table has no work position filled in that slot.
C15_EmptySlotNeverFails ==
    (/\ pc = "returned"
     /\ entry \in {"create_schedule_phoenix", "create_schedule_backtracking_classic"}
     /\ ZeroAvailableSlots # {}
     /\ OtherSlotsSchedulable)
        => /\ result.kind = "ok"
           /\ \A i \in ZeroAvailableSlots : DOMAIN result.rows[i] = {}

\* The classic half of C15 alone.
C15_ClassicHalf ==
    (entry = "create_schedule_backtracking_classic") => C15_EmptySlotNeverFails

\* The classic solver has walked through a slot without anyone available that
\* lies between two slots with placements, under a schedulable roster.
C15_ClassicHalfReached ==
    /\ pc = "returned"
    /\ entry = "create_schedule_backtracking_classic"
    /\ result.kind = "ok"
    /\ \E i \in ZeroAvailableSlots :
          /\ i > 1 /\ i < Len(result.time_slots)
          /\ DOMAIN result.rows[i - 1] # {} /\ DOMAIN result.rows[i + 1] # {}


\* ----------------------------------------------------------------------
\* The solvers with their state maps as objects.  A state map is a dict that
\* the caller hands to the callee by reference: heap is the sequence of the
\* dicts allocated so far, a reference is an index into it.  The code writes a
\* state map in one place only, new_states[emp] = {...}, and never writes the
\* per-employee dicts or the history lists in place.
\* ----------------------------------------------------------------------

\* new_states is the caller's own dict, not a copy of it.
AliasOf(heap, states) == states

\* new_states = states.copy(): the reference of a newly allocated dict.
CopyOf(heap, states) == Len(heap) + 1

\* The result of a classic call on the heap: kept says that at every call
\* site so far the caller's dict was, when the call returned, what it was
\* before the copy; retried says that some caller went on to a further
\* permutation after a callee that had written a dict of its own.
RECURSIVE solve_classic_recursive_on_heap(_, _, _, _, _, _, _, _)
RECURSIVE ClassicLoopOnHeap(_, _, _, _, _, _, _, _, _, _)
ClassicLoopOnHeap(perms, k, time_idx, time_slots, availability, schedule, states, heap, kept, retried) ==
    IF k > Len(perms)
    THEN [solved |-> FALSE, schedule |-> schedule, heap |-> heap, kept |-> kept, retried |-> retried]
    ELSE LET assignments == Assignments(perms[k]) IN
         IF is_assignment_valid_backtracking_classic(
                assignments, Minute(time_slots[time_idx]), heap[states])
         THEN LET new_states == CopyOf(heap, states)
                  allocated == Append(heap, heap[states])
                  written == [allocated EXCEPT ![new_states] =
                                 ClassicNewStates(allocated[states], assignments)]
                  r == solve_classic_recursive_on_heap(
                           time_idx + 1, time_slots, availability,
                           [schedule EXCEPT ![time_idx] = assignments],
                           new_states, written, kept, retried)
                  same == r.heap[states] = heap[states]
              IN  IF r.solved THEN [r EXCEPT !.kept = r.kept /\ same]
                  ELSE ClassicLoopOnHeap(perms, k + 1, time_idx, time_slots, availability,
                                         r.schedule, states, r.heap, r.kept /\ same,
                                         r.retried \/ (k < Len(perms) /\ Len(r.heap) > Len(written)))
         ELSE ClassicLoopOnHeap(perms, k + 1, time_idx, time_slots, availability,
                                schedule, states, heap, kept, retried)
solve_classic_recursive_on_heap(time_idx, time_slots, availability, schedule, states, heap, kept, retried) ==
    IF time_idx > Len(time_slots)
    THEN [solved |-> TRUE, schedule |-> schedule, heap |-> heap, kept |-> kept, retried |-> retried]
    ELSE LET avail_emps == AvailGet(availability, time_slots[time_idx]) IN
         IF Len(avail_emps) > Len(WORK_POSITIONS)
         THEN [solved |-> FALSE, schedule |-> schedule, heap |-> heap, kept |-> kept, retried |-> retried]
         ELSE ClassicLoopOnHeap(permutations(avail_emps), 1, time_idx, time_slots,
                                availability, schedule, states, heap, kept, retried)

\* The top-level call of create_schedule_backtracking_classic: states is {}.
ClassicSolveOnHeap(roster) ==
    LET df_long == preprocess_employee_data(roster)
        time_slots == TimeSlots(df_long)
    IN  solve_classic_recursive_on_heap(1, time_slots, Availability(df_long),
                                        [i \in 1 .. Len(time_slots) |-> << >>],
                                        1, << << >> >>, TRUE, FALSE)

\* The result of a phoenix call on the heap: PhoenixResult with the heap and
\* kept, which says the same as for the classic solver.
RECURSIVE solve_phoenix_recursive_on_heap(_, _, _, _, _, _, _, _, _)
RECURSIVE PhoenixLoopOnHeap(_, _, _, _, _, _, _, _, _, _, _, _)
PhoenixLoopOnHeap(perms, k, time_idx, time_slots, availability, schedule, prev_states, best_cost_at_level, best_some, memo, heap, kept) ==
    IF k > Len(perms)
    THEN [raised |-> FALSE, cost |-> best_cost_at_level, some |-> best_some,
          schedule |-> schedule, memo |-> memo, heap |-> heap, kept |-> kept]
    ELSE LET assignments == Assignments(perms[k])
             current_cost == CurrentCost(assignments, heap[prev_states],
                                         Minute(time_slots[time_idx]))
         IN
         IF \/ IsHardViolation(assignments, heap[prev_states])
            \/ CostLe(best_cost_at_level, Fin(current_cost))
         THEN PhoenixLoopOnHeap(perms, k + 1, time_idx, time_slots, availability, schedule,
                                prev_states, best_cost_at_level, best_some, memo, heap, kept)
         ELSE LET new_states == CopyOf(heap, prev_states)
                  allocated == Append(heap, heap[prev_states])
                  written == [allocated EXCEPT ![new_states] =
                                 PhoenixNewStates(allocated[prev_states], assignments)]
                  r == solve_phoenix_recursive_on_heap(
                           time_idx + 1, time_slots, availability, schedule,
                           new_states, CostSub(best_cost_at_level, current_cost),
                           memo, written, kept)
                  same == r.heap[prev_states] = heap[prev_states]
                  total_cost == Fin(current_cost + r.cost[1])
              IN  IF r.raised THEN [r EXCEPT !.kept = r.kept /\ same]
                  ELSE IF r.cost # Inf /\ CostLt(total_cost, best_cost_at_level)
                  THEN PhoenixLoopOnHeap(perms, k + 1, time_idx, time_slots, availability,
                                         [r.schedule EXCEPT ![time_idx] = assignments],
                                         prev_states, total_cost, TRUE, r.memo,
                                         r.heap, r.kept /\ same)
                  ELSE PhoenixLoopOnHeap(perms, k + 1, time_idx, time_slots, availability,
                                         r.schedule, prev_states, best_cost_at_level,
                                         best_some, r.memo, r.heap, r.kept /\ same)
solve_phoenix_recursive_on_heap(time_idx, time_slots, availability, schedule, prev_states, best_cost_so_far, memo, heap, kept) ==
    LET state_key == StateKey(time_idx, heap[prev_states])
        leave(raised, cost, some) ==
            [raised |-> raised, cost |-> cost, some |-> some, schedule |-> schedule,
             memo |-> memo, heap |-> heap, kept |-> kept]
    IN
    IF ~Hashable(state_key) THEN leave(TRUE, Inf, FALSE)
    ELSE IF state_key \in DOMAIN memo /\ CostLe(memo[state_key].cost, best_cost_so_far)
    THEN leave(FALSE, memo[state_key].cost, memo[state_key].some)
    ELSE IF time_idx > Len(time_slots)
    THEN leave(FALSE, Fin(0), TRUE)
    ELSE LET avail_emps == AvailGet(availability, time_slots[time_idx]) IN
         IF Len(avail_emps) > Len(WORK_POSITIONS)
         THEN leave(FALSE, Inf, FALSE)
         ELSE LET r == PhoenixLoopOnHeap(permutations(avail_emps), 1, time_idx, time_slots,
                                         availability, schedule, prev_states,
                                         best_cost_so_far, FALSE, memo, heap, kept)
                  cost == IF r.some THEN r.cost ELSE Inf
                  stored == [key \in (DOMAIN r.memo) \cup {state_key} |->
                                IF key = state_key
                                THEN [cost |-> cost, some |-> r.some]
                                ELSE r.memo[key]]
              IN  IF r.raised THEN r
                  ELSE [r EXCEPT !.cost = cost, !.memo = stored]

\* The top-level call of create_schedule_phoenix: prev_states is {}.
PhoenixSolveOnHeap(roster) ==
    LET df_long == preprocess_employee_data(roster)
        time_slots == TimeSlots(df_long)
    IN  solve_phoenix_recursive_on_heap(1, time_slots, Availability(df_long),
                                        [i \in 1 .. Len(time_slots) |-> << >>],
                                        1, Inf, << >>, << << >> >>, TRUE)

\* The solvers on the heap return what the solvers of the program return.
OnHeapAgrees ==
    /\ Returned("create_schedule_backtracking_classic") =>
          LET r == ClassicSolveOnHeap(employee_data_list)
              df_long == preprocess_employee_data(employee_data_list)
              time_slots == TimeSlots(df_long)
              q == solve_classic_recursive(1, time_slots, Availability(df_long),
                                           [i \in 1 .. Len(time_slots) |-> << >>], << >>)
          IN  r.solved = q.solved /\ r.schedule = q.schedule
    /\ Returned("create_schedule_phoenix") =>
          LET r == PhoenixSolveOnHeap(employee_data_list)
              q == PhoenixSolve(employee_data_list)
          IN  /\ r.raised = q.raised /\ r.cost = q.cost /\ r.some = q.some
              /\ r.schedule = q.schedule /\ r.memo = q.memo

\* C16: a recursive call never changes the caller's state map: when the call
\* has returned (or has been left by an exception), the dict the caller reads
\* for the next permutation holds what it held before the call, at every call
\* site of the phoenix and of the classic solver.
C16_CallKeepsCallerStates ==
    /\ Returned("create_schedule_backtracking_classic") =>
          ClassicSolveOnHeap(employee_data_list).kept
    /\ Returned("create_schedule_phoenix") =>
          PhoenixSolveOnHeap(employee_data_list).kept

\* The classic solver went on to a further permutation of a slot after a
\* callee that had written a state map of its own had returned unsolved.
C16_Witness ==
    /\ Returned("create_schedule_backtracking_classic")
    /\ ClassicSolveOnHeap(employee_data_list).retried


\* The cache holds the entry of the top-level call whenever it holds any.
MemoHoldsTopKey == memo_cache # << >> => StateKey(1, << >>) \in DOMAIN memo_cache

\* C17: runs of create_schedule_phoenix are independent: a run never reads a
\* memo entry written by another run, earlier or interleaved with it in the
\* same process, and so returns what it returns when it runs alone.
C17_RunsIndependent ==
    \A t \in Threads :
        threads[t].pc = "returned" =>
            /\ ~threads[t].read
            /\ threads[t].result = create_schedule_phoenix(threads[t].roster)


\* ----------------------------------------------------------------------
\* solve_phoenix_recursive with the cache lookups and stores removed: the
\* same search without "state_key in memo_cache ... return memo_cache[...]"
\* and without "memo_cache[state_key] = result".  Building state_key alone
\* raises nothing: it is the lookup that hashes it.
\* ----------------------------------------------------------------------
RECURSIVE solve_phoenix_recursive_uncached(_, _, _, _, _, _)
RECURSIVE PhoenixLoopUncached(_, _, _, _, _, _, _, _, _)
PhoenixLoopUncached(perms, k, time_idx, time_slots, availability, schedule, prev_states, best_cost_at_level, best_some) ==
    IF k > Len(perms)
    THEN PhoenixResult(FALSE, best_cost_at_level, best_some, schedule, << >>)
    ELSE LET assignments == Assignments(perms[k])
             current_cost == CurrentCost(assignments, prev_states,
                                         Minute(time_slots[time_idx]))
         IN
         IF \/ IsHardViolation(assignments, prev_states)
            \/ CostLe(best_cost_at_level, Fin(current_cost))
         THEN PhoenixLoopUncached(perms, k + 1, time_idx, time_slots, availability,
                                  schedule, prev_states, best_cost_at_level, best_some)
         ELSE LET r == solve_phoenix_recursive_uncached(
                           time_idx + 1, time_slots, availability, schedule,
                           PhoenixNewStates(prev_states, assignments),
                           CostSub(best_cost_at_level, current_cost))
                  total_cost == Fin(current_cost + r.cost[1])
              IN  IF r.cost # Inf /\ CostLt(total_cost, best_cost_at_level)
                  THEN PhoenixLoopUncached(perms, k + 1, time_idx, time_slots, availability,
                                           [r.schedule EXCEPT ![time_idx] = assignments],
                                           prev_states, total_cost, TRUE)
                  ELSE PhoenixLoopUncached(perms, k + 1, time_idx, time_slots, availability,
                                           r.schedule, prev_states, best_cost_at_level,
                                           best_some)
solve_phoenix_recursive_uncached(time_idx, time_slots, availability, schedule, prev_states, best_cost_so_far) ==
    IF time_idx > Len(time_slots)
    THEN PhoenixResult(FALSE, Fin(0), TRUE, schedule, << >>)
    ELSE LET avail_emps == AvailGet(availability, time_slots[time_idx]) IN
         IF Len(avail_emps) > Len(WORK_POSITIONS)
         THEN PhoenixResult(FALSE, Inf, FALSE, schedule, << >>)
         ELSE LET r == PhoenixLoopUncached(permutations(avail_emps), 1, time_idx,
                                           time_slots, availability, schedule,
                                           prev_states, best_cost_so_far, FALSE)
              IN  PhoenixResult(FALSE, IF r.some THEN r.cost ELSE Inf, r.some,
                                r.schedule, << >>)

\* The top-level call of create_schedule_phoenix on the search without cache.
PhoenixSolveUncached(roster) ==
    LET df_long == preprocess_employee_data(roster)
        time_slots == TimeSlots(df_long)
    IN  solve_phoenix_recursive_uncached(1, time_slots, Availability(df_long),
                                         [i \in 1 .. Len(time_slots) |-> << >>],
                                         << >>, Inf)

\* C19: memoization does not change the solver's result: the top-level call
\* of solve_phoenix_recursive with the memo cache returns the same (cost,
\* schedule) pair as the same search with the cache lookups and stores
\* removed.
C19_MemoKeepsResult ==
    (Returned("create_schedule_phoenix") /\ result.kind # "nodata") =>
        LET cached == PhoenixSolve(employee_data_list)
            uncached == PhoenixSolveUncached(employee_data_list)
        IN  /\ ~cached.raised
            /\ cached.cost = uncached.cost
            /\ cached.some = uncached.some
            /\ cached.some => cached.schedule = uncached.schedule


\* emp is Conductor in column i of the returned table and was not Conductor in
\* column i - 1 (another position, break, training, off shift, or no column).
NewConductorStart(emp, i) ==
    /\ emp \in Holder(result.rows, i, "Conductor")
    /\ emp \notin Holder(result.rows, i - 1, "Conductor")

\* C21: in every schedule returned by create_schedule_backtracking_classic, a
\* slot in which an employee is Conductor without having been Conductor in the
\* immediately preceding slot starts on the hour.
C21_ClassicConductorStartsOnTheHour ==
    (Returned("create_schedule_backtracking_classic") /\ result.kind = "ok") =>
        \A i \in Columns : \A emp \in Emps :
            NewConductorStart(emp, i) => Minute(result.time_slots[i]) = 0


\* The assignments rows(i), rows(i + 1), ... in turn pass the check of the
\* classic solver, each against the states left by the ones before it.
RECURSIVE ClassicReplay(_, _, _, _)
ClassicReplay(rows, time_slots, i, states) ==
    IF i > Len(rows) THEN TRUE
    ELSE /\ is_assignment_valid_backtracking_classic(rows[i], Minute(time_slots[i]), states)
         /\ ClassicReplay(rows, time_slots, i + 1, ClassicNewStates(states, rows[i]))

RECURSIVE CandidateSchedules(_, _, _)
CandidateSchedules(time_idx, time_slots, availability) ==
    IF time_idx > Len(time_slots) THEN {<< >>}
    ELSE LET perms == permutations(AvailGet(availability, time_slots[time_idx]))
         IN  {<< Assignments(perms[k]) >> \o rest :
                 k \in 1 .. Len(perms),
                 rest \in CandidateSchedules(time_idx + 1, time_slots, availability)}

\* The assignments rows(i), rows(i + 1), ... in turn pass the hard-rule check
\* of solve_phoenix_recursive, each against the states its new_states leave.
RECURSIVE PhoenixReplay(_, _, _)
PhoenixReplay(rows, i, states) ==
    IF i > Len(rows) THEN TRUE
    ELSE /\ ~IsHardViolation(rows[i], states)
         /\ PhoenixReplay(rows, i + 1, PhoenixNewStates(states, rows[i]))

\* No employee holds one non-Line-Buster position in three slots in a row.
NoPositionThrice(rows) ==
    \A emp \in Emps : \A i \in 1 .. Len(rows) :
        \A pos \in Range(WORK_POSITIONS) \ LINE_BUSTER_ROLES :
            ~SamePositionThrice(rows, emp, i, pos)

\* C23: the consecutive count of the phoenix solver counts uninterrupted slots
\* only: a slot on break, in training or off the availability list is a gap
\* after which the limits are evaluated as for a fresh start, so every way to
\* fill the roster's slots in which nobody holds one position in three slots
\* in a row passes the hard-rule check (Handout, Handout, Break, Handout does).
C23_GapRestartsCount ==
    Returned("create_schedule_phoenix") =>
        LET df_long == preprocess_employee_data(employee_data_list)
        IN  \A rows \in CandidateSchedules(1, TimeSlots(df_long), Availability(df_long)) :
                NoPositionThrice(rows) => PhoenixReplay(rows, 1, << >>)


\* The employees available for work in column i of the returned table: on
\* shift, not on break, not in training.
AvailableAt(i) ==
    Range(AvailGet(Availability(preprocess_employee_data(employee_data_list)),
                   result.time_slots[i]))

\* C24: create_schedule_heuristic never returns a schedule in which an
\* employee who is available for work in a slot is listed in no row of that
\* slot (when it cannot place everyone it reports failure instead).
C24_HeuristicPlacesEveryone ==
    (Returned("create_schedule_heuristic") /\ result.kind = "ok") =>
        \A i \in Columns : \A emp \in AvailableAt(i) :
            \E pos \in DOMAIN result.rows[i] : result.rows[i][pos] = emp


\* emp is Conductor in columns i, i + 1 and i + 2 of the returned table.
ConductorThrice(emp, i) == SamePositionThrice(result.rows, emp, i, "Conductor")

\* C25: in every schedule returned by create_schedule_heuristic no employee
\* holds Conductor in more than two consecutive slots, also when the same
\* employee is the only candidate at two successive hour-boundary slots of the
\* Conductor pre-pass.
C25_HeuristicConductorAtMostTwice ==
    (Returned("create_schedule_heuristic") /\ result.kind = "ok") =>
        \A emp \in Emps : \A i \in Columns : ~ConductorThrice(emp, i)


\* The off-hour new Conductor starts of a table: the columns that do not start
\* on the hour and whose Conductor was not Conductor in the column before.
OffHourStarts(rows, time_slots) ==
    {i \in 1 .. Len(rows) :
        /\ Minute(time_slots[i]) # 0
        /\ Holder(rows, i, "Conductor") # {}
        /\ Holder(rows, i, "Conductor") # Holder(rows, i - 1, "Conductor")}

\* The remaining hard rules on a table: nobody in Line Buster roles in two
\* slots in a row, nobody in one other position in three slots in a row.
KeepsConsecutiveLimits(rows) ==
    /\ NoPositionThrice(rows)
    /\ \A emp \in Emps : \A i \in 1 .. Len(rows) : ~LineBusterTwice(rows, emp, i)

\* First half of C26: every schedule returned by create_schedule_classic_limited
\* contains at most two off-hour new Conductor starts over the whole day.
AtMostTwoOffHourStarts ==
    (Returned("create_schedule_classic_limited") /\ result.kind = "ok") =>
        Cardinality(OffHourStarts(result.rows, result.time_slots)) <= 2

\* Second half of C26: create_schedule_classic_limited reports failure only if
\* no schedule with at most two such starts satisfies the remaining hard rules.
FailsOnlyWithoutSchedule ==
    (Returned("create_schedule_classic_limited") /\ result.kind = "fail") =>
        LET df_long == preprocess_employee_data(employee_data_list)
            time_slots == TimeSlots(df_long)
        IN  \A rows \in CandidateSchedules(1, time_slots, Availability(df_long)) :
                ~ (/\ KeepsConsecutiveLimits(rows)
                   /\ Cardinality(OffHourStarts(rows, time_slots)) <= 2)


\* C26: every schedule returned by create_schedule_classic_limited contains at
\* most two off-hour new Conductor starts over the whole day, and the function
\* reports failure only if no schedule with at most two such starts satisfies
\* the remaining hard rules.
C26_ClassicLimitedBoundsStarts == AtMostTwoOffHourStarts /\ FailsOnlyWithoutSchedule


\* C27: create_schedule_classic_limited prefixes its output with the note that
\* the Conductor start time rule was broken only when the returned schedule
\* contains an off-hour new Conductor start; a schedule in which every
\* Conductor start is on the hour is returned without the note.
C27_ClassicLimitedNoteOnlyWhenBroken ==
    (Returned("create_schedule_classic_limited") /\ result.kind = "ok") =>
        (result.note # "" => OffHourStarts(result.rows, result.time_slots) # {})

\* The employees in the work cells of column i of a table.
ColumnEmployees(rows, i) == {rows[i][pos] : pos \in DOMAIN rows[i]}

\* The loop is running, or has returned, in create_schedule_phoenix_diverse.
InDiverseLoop ==
    pc \in {"sweep", "returned"}
    /\ entry \in {"create_schedule_phoenix_diverse", OnOwnOutput}
    /\ result.kind = "ok"

\* At most five passes, at most one swap for each pass done, and every
\* column of df holds the employees and the filled positions of the table
\* the loop began with.
SweepStaysBounded ==
    InDiverseLoop =>
        /\ passes <= SweepPasses
        /\ swaps_made <= passes
        /\ swaps_made <= 5
        /\ pc = "sweep" =>
              \A i \in 1 .. NumColumns(df) :
                  /\ ColumnEmployees(df.rows, i) = ColumnEmployees(result.rows, i)
                  /\ DOMAIN df.rows[i] = DOMAIN result.rows[i]

\* A step of the loop that counts a swap counts one, in one pass, and
\* exchanges the cells of two distinct employees in one column.
SwapExchangesTwoInOneSlot ==
    (pc = "sweep" /\ pc' = "sweep" /\ swaps_made' # swaps_made) =>
        /\ swaps_made' = swaps_made + 1
        /\ passes' = passes + 1
        /\ df'.Break = df.Break /\ df'.ToffTL = df.ToffTL
        /\ \E i \in 1 .. NumColumns(df) :
              \E p, q \in DOMAIN df.rows[i] :
                  /\ p # q
                  /\ df.rows[i][p] # df.rows[i][q]
                  /\ df'.rows = [df.rows EXCEPT ![i] =
                                    [@ EXCEPT ![p] = df.rows[i][q],
                                              ![q] = df.rows[i][p]]]

C29_SolverNeverRaises ==
    Returned("create_schedule_phoenix") =>
        /\ ~PhoenixSolve(employee_data_list).raised
        /\ result.kind # "raised"

====
